---- MODULE Spec2Model ----
(***************************************************************************)
(* The ingestion and vector-retrieval pipeline of OmniLearn:                *)
(*   workers/embedder.py   _get_model, _get_qdrant, _chunks, ingest_file    *)
(*   api/routers/ingest.py ingest_slug (queues ingest_file per file)        *)
(*   api/routers/search.py search                                           *)
(* Every request runs in a worker thread of one of the server processes.    *)
(* The Metadata Store (Postgres) and the Vector Index (Qdrant) are shared   *)
(* by all processes; _model and _qdrant are globals of one process.         *)
(***************************************************************************)
EXTENDS Integers, Sequences, FiniteSets, TLC

\* ------------------------------------------------------------------ bounds
MaxFaults   == 1      \* environment faults (I/O, network, model) injected
\* Points sent by one upsert request of upload_collection. The client's own
\* batches are larger than any file modelled here; the small batch shows the
\* collection with a part of a file's points, as a long file's upload does.
UploadBatch == 1

MaxText  == 5         \* longest text given to _chunks on its own
MaxChunk == 3         \* largest chunk length _chunks is run with on its own

Threads == {1, 2}             \* worker threads, each serving one request
Procs   == {"p1", "p2"}       \* server processes (separate module globals)

\* ------------------------------------------------- configuration constants
COLLECTION == "doc_chunks"
DIM        == 384
CHUNK      == 512
DISTANCE   == "Cosine"

\* search(): Query(..., min_length=2), Query(..., min_length=1), Query(5, ge=1, le=50)
Q_MIN_LENGTH    == 2
SLUG_MIN_LENGTH == 1
K_GE            == 1
K_LE            == 50

\* ------------------------------------------------------------ the file tree
\* domains/<slug>/trusted/*: name, suffix and len. A Markdown file is one
\* paragraph of len characters, its words separated by single spaces; of a
\* PDF, len is the length of the text its pages extract to (a2.pdf: pages
\* that all extract to empty strings).
TrustedFiles ==
    [a |-> { [name |-> "a1.md",  suffix |-> ".md",  len |-> 1024],
             [name |-> "a2.pdf", suffix |-> ".pdf", len |-> 0] },
     b |-> { [name |-> "b1.md",  suffix |-> ".md",  len |-> 300] },
     e |-> {} ]

IngestSlugs == {"a", "b", "e", "n"}       \* "n" has no directory, "e" no files
\* search requests <<q, slug, k>>: valid ones, and one per broken constraint
SearchInputs ==
    { <<"xy", "a", 1>>, <<"xy", "a", 50>>, <<"xy", "b", 2>>,
      <<"x", "a", 1>>, <<"xy", "", 1>>, <<"xy", "a", 0>>, <<"xy", "a", 51>> }

\* The processes whose worker pool thread t may belong to
ProcsOf(t) == IF t = 1 THEN {"p1"} ELSE Procs

NoFile == [name |-> "", suffix |-> "", len |-> 0]

VARIABLES
    rows,      \* Metadata Store: the committed Embedding rows
    coll,      \* Vector Index: the collection COLLECTION
    _model,    \* per process: the global _model (0 is None, else the instance)
    _qdrant,   \* per process: the global _qdrant is not None
    th,        \* per thread: the request it serves and its local variables
    nextId,    \* uuid4(): the next fresh identifier
    faults,    \* environment faults injected so far
    ck         \* one call of _chunks run on its own: its text and its locals

vars == <<rows, coll, _model, _qdrant, th, nextId, faults, ck>>

NoCollection == [exists |-> FALSE, size |-> 0, distance |-> "", points |-> {}]

Idle ==
    [op |-> "idle", proc |-> "p1", pc |-> "idle", slug |-> "", q |-> "", k |-> 0,
     queue |-> <<>>, results |-> <<>>, file |-> NoFile, nch |-> 0, ids |-> <<>>,
     nrows |-> 0, sent |-> 0, upfailed |-> FALSE, model |-> 0, res |-> <<>>,
     hits |-> <<>>, err |-> "", did |-> {}]

\* No call of _chunks is run on its own
NoChunker == [pc |-> "off", text |-> <<>>, n |-> 0, clean |-> <<>>, i |-> 0, out |-> <<>>]

\* The Embedding row of one chunk (lines 106-112)
EmbeddingRow(r, id) ==
    [id |-> id, object_type |-> "doc_chunk",
     object_id |-> <<r.slug, r.file.name>>, dim |-> DIM]

\* The point of chunk i: its id, and the payload built at lines 115-117
Point(r, i) ==
    [id |-> r.ids[i],
     payload |-> [text |-> <<r.file.name, i>>, source |-> r.file.name, domain |-> r.slug]]

\* What ingest_file("b1.md", "b") of an earlier server process has left in
\* the two stores
Earlier == [Idle EXCEPT !.slug = "b", !.file = [name |-> "b1.md", suffix |-> ".md", len |-> 300],
                        !.ids = <<1>>]

\* A fresh deployment, or one in which an earlier process (since exited)
\* has ingested domain "b"; the processes modelled have just started.
Init ==
    /\ \/ /\ rows = {}
          /\ coll = NoCollection
          /\ nextId = 1
       \/ /\ rows = {EmbeddingRow(Earlier, 1)}
          /\ coll = [exists |-> TRUE, size |-> DIM, distance |-> DISTANCE,
                     points |-> {Point(Earlier, 1)}]
          /\ nextId = 2
    /\ _model = [p \in Procs |-> 0]
    /\ _qdrant = [p \in Procs |-> FALSE]
    /\ th = [t \in Threads |-> Idle]
    /\ faults = 0
    /\ ck = NoChunker

\* ---------------------------------------------------------------- helpers
Min(a, b) == IF a < b THEN a ELSE b

\* len(list(range(0, len(clean), CHUNK))): the number of chunks _chunks yields
NumChunks(len) == (len + CHUNK - 1) \div CHUNK

\* All orders in which glob("*") may list a set of files
Orders(S) == { s \in [1..Cardinality(S) -> S] : \A i, j \in 1..Cardinality(S) : s[i] = s[j] => i = j }

DirExists(s) == s \in DOMAIN TrustedFiles

FilesOf(s) == TrustedFiles[s]

\* One thread's record replaced
Set(t, r) == th' = [th EXCEPT ![t] = r]

FaultOK == faults < MaxFaults

\* An exception leaves the function the thread runs: ingest_file raises into
\* the background runner, search answers with an error.
Raise(r, e) ==
    IF r.op = "ingest" THEN [r EXCEPT !.pc = "f_raise", !.err = e]
    ELSE [r EXCEPT !.pc = "failed", !.err = e]

\* Where the caller goes on once _get_model() / _get_qdrant() has returned
AfterModel(r)  == IF r.op = "ingest" THEN "f_encode" ELSE "q_check"
AfterQdrant(r) == IF r.op = "ingest" THEN "f_upload" ELSE "s_encode"

\* ------------------------------------------------- api/routers/ingest.py
\* ingest_slug(slug, tasks): 404 without the directory, 400 without files,
\* else one background task per file, in the order glob listed them.
IngestSlug(t, p, s) ==
    /\ th[t].pc = "idle"
    /\ LET r == [Idle EXCEPT !.op = "ingest", !.proc = p, !.slug = s] IN
       IF ~DirExists(s)
       THEN Set(t, [r EXCEPT !.pc = "http_error", !.err = "404 domain not found"])
       ELSE IF FilesOf(s) = {}
       THEN Set(t, [r EXCEPT !.pc = "http_error", !.err = "400 no files to ingest"])
       ELSE \E files \in Orders(FilesOf(s)) :
                Set(t, [r EXCEPT !.pc = "f_extract", !.queue = files,
                                   !.file = Head(files)])
    /\ UNCHANGED <<rows, coll, _model, _qdrant, nextId, faults, ck>>

\* The background runner of one response runs the tasks one after another,
\* each awaited before the next starts. ingest_file returned: the runner
\* goes on with the next task, if there is one.
BgTaskReturned(t) ==
    /\ th[t].pc = "f_ok"
    /\ LET rest == Tail(th[t].queue)
           r == [th[t] EXCEPT !.queue = rest,
                              !.results = Append(@, <<th[t].file.name, "ok">>)] IN
       IF rest = <<>>
       THEN Set(t, [r EXCEPT !.pc = "done"])
       ELSE Set(t, [r EXCEPT !.pc = "f_extract", !.file = Head(rest), !.nch = 0,
                             !.ids = <<>>, !.nrows = 0, !.sent = 0, !.upfailed = FALSE,
                             !.err = "", !.did = {}])
    /\ UNCHANGED <<rows, coll, _model, _qdrant, nextId, faults, ck>>

\* ingest_file raised: the exception leaves the runner's loop, and the tasks
\* still queued behind it are not run.
BgTaskRaised(t) ==
    /\ th[t].pc = "f_raise"
    /\ Set(t, [th[t] EXCEPT !.pc = "bg_dead", !.queue = Tail(th[t].queue),
                            !.results = Append(th[t].results, <<th[t].file.name, "failed">>)])
    /\ UNCHANGED <<rows, coll, _model, _qdrant, nextId, faults, ck>>

\* ------------------------------------------------- workers/embedder.py
\* Faulty variant: the unreadable file is taken as a placeholder text.
ExtractFailed_Placeholder(r) == [r EXCEPT !.pc = "m_check", !.nch = 1, !.err = "extract"]

\* read_text / PdfReader / render raised: nothing catches it, so it leaves
\* ingest_file at lines 87-94, before anything is built or written.
ExtractFailed(r) == Raise(r, "extract")

\* Faulty variant: the loop stops at the failing chunk and the chunks
\* embedded so far are stored.
EncodeFailed_StoreSoFar(r) == [r EXCEPT !.pc = "f_commit", !.err = "encode"]

\* encode(chunk) raised inside the loop (line 102): nothing catches it, so
\* it leaves ingest_file before line 120.
EncodeFailed(r) == Raise(r, "encode")

\* _md.render(src) of a paragraph of n characters is "<p>" \o src \o "</p>\n":
\* the renderer of MarkdownIt produces HTML. An empty file renders to "".
RenderedLen(n) == IF n = 0 THEN 0 ELSE Len(<<"<", "p", ">">>) + n + Len(<<"<", "/", "p", ">", "\n">>)

\* len(clean) in _chunks(text) for the text extracted from file f (lines
\* 87-94 and 76): the pages' text of a PDF, the rendering of any other file;
\* strip() takes the newline that ends a rendering.
CleanLen(f) ==
    IF f.suffix = ".pdf" THEN f.len
    ELSE IF RenderedLen(f.len) = 0 THEN 0 ELSE RenderedLen(f.len) - 1

\* ingest_file: read & extract text (lines 86-94)
Extract(t) ==
    /\ th[t].pc = "f_extract"
    /\ LET n == NumChunks(CleanLen(th[t].file)) IN
       Set(t, [th[t] EXCEPT !.pc = IF n = 0 THEN "f_commit" ELSE "m_check", !.nch = n])
    /\ UNCHANGED <<rows, coll, _model, _qdrant, nextId, faults, ck>>

ExtractFails(t) ==
    /\ th[t].pc = "f_extract"
    /\ FaultOK
    /\ faults' = faults + 1
    /\ Set(t, ExtractFailed(th[t]))
    /\ UNCHANGED <<rows, coll, _model, _qdrant, nextId, ck>>

\* _get_model: if _model is None (line 41)
GetModelCheck(t) ==
    /\ th[t].pc = "m_check"
    /\ LET r == [th[t] EXCEPT !.did = @ \cup {"_get_model"}] IN
       IF _model[r.proc] = 0
       THEN Set(t, [r EXCEPT !.pc = "m_build"])
       ELSE Set(t, [r EXCEPT !.pc = AfterModel(r), !.model = _model[r.proc]])
    /\ UNCHANGED <<rows, coll, _model, _qdrant, nextId, faults, ck>>

\* _get_model: _model = SentenceTransformer(...) (lines 42-44); the instance
\* is named after the thread that constructed it.
GetModelBuild(t) ==
    /\ th[t].pc = "m_build"
    /\ _model' = [_model EXCEPT ![th[t].proc] = t]
    /\ Set(t, [th[t] EXCEPT !.pc = AfterModel(th[t]), !.model = t,
                            !.did = @ \cup {"model_built"}])
    /\ UNCHANGED <<rows, coll, _qdrant, nextId, faults, ck>>

GetModelFails(t) ==
    /\ th[t].pc = "m_build"
    /\ FaultOK
    /\ faults' = faults + 1
    /\ Set(t, Raise(th[t], "model"))
    /\ UNCHANGED <<rows, coll, _model, _qdrant, nextId, ck>>

\* ingest_file: one round of the loop over _chunks(text): encode(chunk),
\* uuid4(), append to embeds/vecs/payloads (lines 101-117)
EmbedChunk(t) ==
    /\ th[t].pc = "f_encode"
    /\ nextId' = nextId + 1
    /\ LET ids == Append(th[t].ids, nextId) IN
       Set(t, [th[t] EXCEPT !.pc = IF Len(ids) = th[t].nch THEN "f_commit" ELSE "m_check",
                            !.ids = ids, !.did = @ \cup {"encode"}])
    /\ UNCHANGED <<rows, coll, _model, _qdrant, faults, ck>>

EmbedChunkFails(t) ==
    /\ th[t].pc = "f_encode"
    /\ FaultOK
    /\ faults' = faults + 1
    /\ Set(t, EncodeFailed([th[t] EXCEPT !.did = @ \cup {"encode"}]))
    /\ UNCHANGED <<rows, coll, _model, _qdrant, nextId, ck>>

\* with Session(engine) as s: s.add_all(embeds); s.commit() (lines 120-123)
CommitRows(t) ==
    /\ th[t].pc = "f_commit"
    /\ rows' = rows \cup { EmbeddingRow(th[t], th[t].ids[i]) : i \in 1..Len(th[t].ids) }
    /\ Set(t, [th[t] EXCEPT !.pc = "q_check", !.nrows = Len(th[t].ids)])
    /\ UNCHANGED <<coll, _model, _qdrant, nextId, faults, ck>>

\* Faulty variant: the failed commit is swallowed and the upload goes ahead.
CommitFailed_Swallowed(r) == [r EXCEPT !.pc = "q_check"]

\* s.commit() raised: the with block is left by the exception, which
\* leaves ingest_file before line 126 is reached.
CommitFailed(r) == Raise(r, "commit")

CommitFails(t) ==
    /\ th[t].pc = "f_commit"
    /\ FaultOK
    /\ faults' = faults + 1
    /\ Set(t, CommitFailed(th[t]))
    /\ UNCHANGED <<rows, coll, _model, _qdrant, nextId, ck>>

\* _get_qdrant: if _qdrant is None (line 50)
GetQdrantCheck(t) ==
    /\ th[t].pc = "q_check"
    /\ LET r == [th[t] EXCEPT !.did = @ \cup {"_get_qdrant"}] IN
       IF _qdrant[r.proc]
       THEN Set(t, [r EXCEPT !.pc = AfterQdrant(r)])
       ELSE Set(t, [r EXCEPT !.pc = "q_assign"])
    /\ UNCHANGED <<rows, coll, _model, _qdrant, nextId, faults, ck>>

\* _get_qdrant: _qdrant = QdrantClient(...) (lines 53-59); the constructor
\* opens no connection (check_compatibility=False).
GetQdrantAssign(t) ==
    /\ th[t].pc = "q_assign"
    /\ _qdrant' = [_qdrant EXCEPT ![th[t].proc] = TRUE]
    /\ Set(t, [th[t] EXCEPT !.pc = "q_probe", !.did = @ \cup {"client_built"}])
    /\ UNCHANGED <<rows, coll, _model, nextId, faults, ck>>

\* Faulty variant: the collection is re-created on every first use.
ProbeRaises_Always(c) == TRUE

\* get_collection(COLLECTION) answers 404, raised as UnexpectedResponse,
\* when the collection is absent (line 61)
ProbeRaises(c) == ~c.exists

\* _get_qdrant: try: get_collection / except UnexpectedResponse (lines 60-62)
Probe(t) ==
    /\ th[t].pc = "q_probe"
    /\ LET r == [th[t] EXCEPT !.did = @ \cup {"index_call"}] IN
       IF ProbeRaises(coll)
       THEN Set(t, [r EXCEPT !.pc = "q_delete"])
       ELSE Set(t, [r EXCEPT !.pc = AfterQdrant(r)])
    /\ UNCHANGED <<rows, coll, _model, _qdrant, nextId, faults, ck>>

\* The probe is answered by another error status (5xx): UnexpectedResponse
\* as well, so the except branch is taken whatever the collection's state.
ProbeErrorStatus(t) ==
    /\ th[t].pc = "q_probe"
    /\ FaultOK
    /\ faults' = faults + 1
    /\ Set(t, [th[t] EXCEPT !.pc = "q_delete", !.did = @ \cup {"index_call"}])
    /\ UNCHANGED <<rows, coll, _model, _qdrant, nextId, ck>>

\* The probe fails below HTTP (timeout, refused connection): not an
\* UnexpectedResponse, so it leaves _get_qdrant; _qdrant stays assigned.
ProbeFails(t) ==
    /\ th[t].pc = "q_probe"
    /\ FaultOK
    /\ faults' = faults + 1
    /\ Set(t, Raise([th[t] EXCEPT !.did = @ \cup {"index_call"}], "probe"))
    /\ UNCHANGED <<rows, coll, _model, _qdrant, nextId, ck>>

\* recreate_collection, first request: delete_collection(COLLECTION), which
\* succeeds whether or not the collection exists (line 63)
RecreateDelete(t) ==
    /\ th[t].pc = "q_delete"
    /\ coll' = NoCollection
    /\ Set(t, [th[t] EXCEPT !.pc = "q_create"])
    /\ UNCHANGED <<rows, _model, _qdrant, nextId, faults, ck>>

\* recreate_collection, second request: create_collection(COLLECTION,
\* VectorParams(size=DIM, distance=COSINE)); the index refuses to create a
\* collection that exists, and that error leaves _get_qdrant (lines 63-68)
RecreateCreate(t) ==
    /\ th[t].pc = "q_create"
    /\ IF coll.exists
       THEN /\ Set(t, Raise(th[t], "already exists"))
            /\ UNCHANGED coll
       ELSE /\ coll' = [exists |-> TRUE, size |-> DIM, distance |-> DISTANCE, points |-> {}]
            /\ Set(t, [th[t] EXCEPT !.pc = AfterQdrant(th[t])])
    /\ UNCHANGED <<rows, _model, _qdrant, nextId, faults, ck>>

RecreateFails(t) ==
    /\ th[t].pc \in {"q_delete", "q_create"}
    /\ FaultOK
    /\ faults' = faults + 1
    /\ Set(t, Raise(th[t], "recreate"))
    /\ UNCHANGED <<rows, coll, _model, _qdrant, nextId, ck>>

\* Faulty variant: a failed batch is skipped and the upload reports success.
UpsertFailed_Swallowed(r, e) ==
    [r EXCEPT !.pc = "f_ok", !.upfailed = TRUE, !.did = @ \cup {"index_call"}]

\* upload_collection raised (a batch was refused, or could not be sent):
\* nothing catches it, so it leaves ingest_file.
UpsertFailed(r, e) == Raise([r EXCEPT !.upfailed = TRUE, !.did = @ \cup {"index_call"}], e)

\* ingest_file: upload_collection(vectors, payload, ids) (lines 126-131):
\* one upsert request per batch, refused when the collection is absent.
Upload(t) ==
    /\ th[t].pc = "f_upload"
    /\ LET r == th[t] IN
       IF r.sent = r.nch
       THEN /\ Set(t, [r EXCEPT !.pc = "f_ok"])
            /\ UNCHANGED coll
       ELSE IF ~coll.exists
       THEN /\ Set(t, UpsertFailed(r, "upsert: no collection"))
            /\ UNCHANGED coll
       ELSE LET n == Min(r.nch, r.sent + UploadBatch) IN
            /\ coll' = [coll EXCEPT !.points = @ \cup { Point(r, i) : i \in (r.sent + 1)..n }]
            /\ Set(t, [r EXCEPT !.pc = IF n = r.nch THEN "f_ok" ELSE "f_upload",
                                !.sent = n, !.did = @ \cup {"index_call"}])
    /\ UNCHANGED <<rows, _model, _qdrant, nextId, faults, ck>>

UploadFails(t) ==
    /\ th[t].pc = "f_upload"
    /\ th[t].sent < th[t].nch
    /\ FaultOK
    /\ faults' = faults + 1
    /\ Set(t, UpsertFailed(th[t], "upsert"))
    /\ UNCHANGED <<rows, coll, _model, _qdrant, nextId, ck>>

\* ------------------------------------------------- api/routers/search.py
\* Faulty variant: the constraints are off by one (min_length=1, le=51).
ValidQuery_OffByOne(q, s, k) ==
    /\ Len(q) >= Q_MIN_LENGTH - 1
    /\ Len(s) >= SLUG_MIN_LENGTH
    /\ k >= K_GE
    /\ k <= K_LE + 1

\* The parameter constraints of search (lines 21-23), which the framework
\* checks before it calls the function.
ValidQuery(q, s, k) ==
    /\ Len(q) >= Q_MIN_LENGTH
    /\ Len(s) >= SLUG_MIN_LENGTH
    /\ k >= K_GE
    /\ k <= K_LE

\* search(q, slug, k): a request that breaks a constraint is answered 422
\* and the function body does not run; else the body starts with _get_model().
Search(t, p, q, s, k) ==
    /\ th[t].pc = "idle"
    /\ LET r == [Idle EXCEPT !.op = "search", !.proc = p, !.q = q, !.slug = s, !.k = k] IN
       IF ValidQuery(q, s, k)
       THEN Set(t, [r EXCEPT !.pc = "m_check"])
       ELSE Set(t, [r EXCEPT !.pc = "rejected", !.err = "422"])
    /\ UNCHANGED <<rows, coll, _model, _qdrant, nextId, faults, ck>>

\* vec = model.encode(q).tolist() (line 32)
SearchEncode(t) ==
    /\ th[t].pc = "s_encode"
    /\ Set(t, [th[t] EXCEPT !.pc = "s_search", !.did = @ \cup {"encode"}])
    /\ UNCHANGED <<rows, coll, _model, _qdrant, nextId, faults, ck>>

SearchEncodeFails(t) ==
    /\ th[t].pc = "s_encode"
    /\ FaultOK
    /\ faults' = faults + 1
    /\ Set(t, Raise([th[t] EXCEPT !.did = @ \cup {"encode"}], "encode"))
    /\ UNCHANGED <<rows, coll, _model, _qdrant, nextId, ck>>

\* Faulty variant: the search is sent without the domain filter.
MatchesFilter_None(pt, s) == TRUE

\* The filter of lines 35-42: payload key "domain" matches slug exactly
MatchesFilter(pt, s) == pt.payload.domain = s

\* The similarity the index computes between the query and a point; the
\* embedding model is opaque, so the score is an arbitrary fixed function.
Score(q, pt) == (7 * Len(q) + 3 * pt.id) % 5

\* The index's order of results: higher score first, ties in its own order
Nearer(q, a, b) ==
    \/ Score(q, a) > Score(q, b)
    \/ Score(q, a) = Score(q, b) /\ a.id <= b.id

RECURSIVE Nearest(_, _, _)
Nearest(S, q, k) ==
    IF k = 0 \/ S = {} THEN <<>>
    ELSE LET best == CHOOSE a \in S : \A b \in S : Nearer(q, a, b) IN
         <<[id |-> best.id, payload |-> best.payload, score |-> Score(q, best)]>>
             \o Nearest(S \ {best}, q, k - 1)

\* qdrant.search(COLLECTION, query_vector, limit=k, query_filter=flt)
\* (lines 46-52)
IndexSearch(c, q, s, k) == Nearest({ pt \in c.points : MatchesFilter(pt, s) }, q, k)

\* The response mapping of lines 57-68
Chunk(p) == [id |-> p.id, text |-> p.payload.text, source |-> p.payload.source,
             score |-> p.score]

\* Faulty variant: the hits are prepended, so the list comes out reversed.
Hits_Reversed(res) == [i \in 1..Len(res) |-> Chunk(res[Len(res) + 1 - i])]

Hits(res) == [i \in 1..Len(res) |-> Chunk(res[i])]

\* try: res = qdrant.search(...) except Exception: raise HTTPException(500)
\* and the mapping of the result (lines 45-68)
SearchIndex(t) ==
    /\ th[t].pc = "s_search"
    /\ LET r == [th[t] EXCEPT !.did = @ \cup {"index_call"}] IN
       IF ~coll.exists
       THEN Set(t, Raise(r, "500 search failed: no collection"))
       ELSE LET res == IndexSearch(coll, r.q, r.slug, r.k) IN
            Set(t, [r EXCEPT !.pc = "done", !.res = res, !.hits = Hits(res)])
    /\ UNCHANGED <<rows, coll, _model, _qdrant, nextId, faults, ck>>

SearchIndexFails(t) ==
    /\ th[t].pc = "s_search"
    /\ FaultOK
    /\ faults' = faults + 1
    /\ Set(t, Raise([th[t] EXCEPT !.did = @ \cup {"index_call"}], "500 search failed"))
    /\ UNCHANGED <<rows, coll, _model, _qdrant, nextId, ck>>

\* ------------------------------------- workers/embedder.py: _chunks alone
\* A text is a sequence of characters. The characters tried: two letters
\* and two kinds of whitespace.
Alphabet == {"a", "b", " ", "\n"}

Texts == UNION { [1..n -> Alphabet] : n \in 0..MaxText }

\* The chunk lengths tried in place of CHUNK, which no text here reaches
ChunkLens == 1..MaxChunk

\* \s of re, and the characters strip() removes
IsSpace(c) == c \in {" ", "\n"}

\* The text behind the run of whitespace that text s starts with
RECURSIVE SkipSpaces(_)
SkipSpaces(s) ==
    IF s # <<>> /\ IsSpace(Head(s)) THEN SkipSpaces(Tail(s)) ELSE s

\* re.sub(r"\s+", " ", text): every maximal run of whitespace becomes " "
RECURSIVE CollapseWs(_)
CollapseWs(s) ==
    IF s = <<>> THEN <<>>
    ELSE IF IsSpace(Head(s)) THEN <<" ">> \o CollapseWs(SkipSpaces(s))
    ELSE <<Head(s)>> \o CollapseWs(Tail(s))

RECURSIVE RStrip(_)
RStrip(s) ==
    IF s # <<>> /\ IsSpace(s[Len(s)]) THEN RStrip(SubSeq(s, 1, Len(s) - 1)) ELSE s

\* Faulty variant: the collapsed text is sliced without strip().
Strip_None(s) == s

\* str.strip(): whitespace removed from both ends
Strip(s) == RStrip(SkipSpaces(s))

\* Faulty variant: a slice starts at the last character of the one before.
Slice_Overlap(s, a, b) == SubSeq(s, IF a = 0 THEN 1 ELSE a, Min(b, Len(s)))

\* s[a:b] for 0 <= a <= b: the characters at offsets a .. b-1 that s has
Slice(s, a, b) == SubSeq(s, a + 1, Min(b, Len(s)))

\* _chunks is called with a text; the chunk length is one of ChunkLens.
ChunkInit ==
    /\ rows = {}
    /\ coll = NoCollection
    /\ nextId = 1
    /\ _model = [p \in Procs |-> 0]
    /\ _qdrant = [p \in Procs |-> FALSE]
    /\ th = [t \in Threads |-> Idle]
    /\ faults = 0
    /\ \E s \in Texts, n \in ChunkLens :
           ck = [NoChunker EXCEPT !.pc = "clean", !.text = s, !.n = n]

\* clean = re.sub(r"\s+", " ", text).strip() (line 76)
ChunksClean ==
    /\ ck.pc = "clean"
    /\ ck' = [ck EXCEPT !.pc = "loop", !.clean = Strip(CollapseWs(ck.text)), !.i = 0]
    /\ UNCHANGED <<rows, coll, _model, _qdrant, th, nextId, faults>>

\* for i in range(0, len(clean), CHUNK): yield clean[i : i + CHUNK]
\* (lines 77-78): one round of the loop
ChunksYield ==
    /\ ck.pc = "loop"
    /\ ck.i < Len(ck.clean)
    /\ ck' = [ck EXCEPT !.out = Append(@, Slice(ck.clean, ck.i, ck.i + ck.n)),
                        !.i = ck.i + ck.n]
    /\ UNCHANGED <<rows, coll, _model, _qdrant, th, nextId, faults>>

\* The range is exhausted: the generator returns.
ChunksStop ==
    /\ ck.pc = "loop"
    /\ ck.i >= Len(ck.clean)
    /\ ck' = [ck EXCEPT !.pc = "done"]
    /\ UNCHANGED <<rows, coll, _model, _qdrant, th, nextId, faults>>

ChunkNext ==
    \/ ChunksClean
    \/ ChunksYield
    \/ ChunksStop

ChunkSpec == ChunkInit /\ [][ChunkNext]_vars

\* ----------------------------------------------------------- the system
Next ==
    \E t \in Threads :
        \/ \E p \in ProcsOf(t), s \in IngestSlugs : IngestSlug(t, p, s)
        \/ BgTaskReturned(t)
        \/ BgTaskRaised(t)
        \/ Extract(t)
        \/ ExtractFails(t)
        \/ GetModelCheck(t)
        \/ GetModelBuild(t)
        \/ GetModelFails(t)
        \/ EmbedChunk(t)
        \/ EmbedChunkFails(t)
        \/ CommitRows(t)
        \/ CommitFails(t)
        \/ GetQdrantCheck(t)
        \/ GetQdrantAssign(t)
        \/ Probe(t)
        \/ ProbeErrorStatus(t)
        \/ ProbeFails(t)
        \/ RecreateDelete(t)
        \/ RecreateCreate(t)
        \/ RecreateFails(t)
        \/ Upload(t)
        \/ UploadFails(t)
        \/ \E p \in ProcsOf(t), in \in SearchInputs : Search(t, p, in[1], in[2], in[3])
        \/ SearchEncode(t)
        \/ SearchEncodeFails(t)
        \/ SearchIndex(t)
        \/ SearchIndexFails(t)

Spec == Init /\ [][Next]_vars

\* ================================================================ claims
InGetQdrant == {"q_check", "q_assign", "q_probe", "q_delete", "q_create"}

\* The rows thread t's ingest_file has built are in the Metadata Store
Committed(t) ==
    \A i \in 1..Len(th[t].ids) : EmbeddingRow(th[t], th[t].ids[i]) \in rows

\* C1: every entry of the Vector Index has a Metadata Store row with the
\* same identifier; an ingest_file is on its way to the upsert, or has sent
\* any of it, only with its rows committed; after a failed commit it has
\* neither asked for the client nor sent anything.
C1_VectorsHaveRows ==
    /\ \A pt \in coll.points : \E row \in rows : row.id = pt.id
    /\ \A t \in Threads :
          /\ th[t].op = "ingest"
          /\ \/ th[t].pc \in InGetQdrant \cup {"f_upload", "f_ok"}
             \/ th[t].sent > 0
             \/ th[t].upfailed
          => Committed(t) /\ th[t].nrows = Len(th[t].ids)
    /\ \A t \in Threads :
          th[t].err = "commit"
          => th[t].sent = 0 /\ ~th[t].upfailed /\ th[t].did \cap {"_get_qdrant", "index_call"} = {}

\* C1 witness: an ingest_file has upserted a point of its file after its
\* commit, and the point is in the collection.
C1_Witness ==
    \E t \in Threads :
        /\ th[t].op = "ingest" /\ th[t].sent > 0
        /\ Point(th[t], 1) \in coll.points

\* C2: when ingest_file returns without error it has created as many rows
\* as it has upserted entries, one per chunk of the file; an invocation in
\* which a part of the upsert failed has not returned without error.
C2_CountsAgree ==
    \A t \in Threads :
        /\ th[t].pc = "f_ok"
           => /\ th[t].nch = NumChunks(CleanLen(th[t].file))
              /\ th[t].nrows = th[t].nch
              /\ th[t].sent = th[t].nch
              /\ Cardinality({ row \in rows : \E i \in 1..Len(th[t].ids) : row.id = th[t].ids[i] })
                    = th[t].nch
        /\ th[t].upfailed => th[t].pc \in {"f_raise", "bg_dead"}

\* C2 witness: ingest_file has returned without error for a file of several chunks.
C2_Witness == \E t \in Threads : th[t].pc = "f_ok" /\ th[t].nch >= 2

\* C3: once the collection exists it is never dropped, and no entry is ever
\* removed from it (stated for steps in behaviours without injected faults).
C3_CollectionNeverDropped ==
    [][(coll.exists /\ faults' = 0) => (coll'.exists /\ coll.points \subseteq coll'.points)]_vars

\* C4: with no fault injected, no initialisation raises "already exists" to
\* its caller, and once no thread is inside an initialisation that any
\* thread has performed, the collection exists with size 384 and cosine.
C4_ConcurrentInitSucceeds ==
    faults = 0 =>
        /\ \A t \in Threads : th[t].err # "already exists"
        /\ (/\ \E t \in Threads : "client_built" \in th[t].did
            /\ \A t \in Threads : th[t].pc \notin InGetQdrant)
           => coll.exists /\ coll.size = 384 /\ coll.distance = "Cosine"

\* C5: a call of _get_qdrant whose check of _qdrant and whose probe are made
\* while the collection exists (so a call that follows a completed one), and
\* is answered without a fault, does not enter recreate_collection and
\* leaves the collection's configuration and entries as they were.
C5_ProvisioningIdempotent ==
    [][\A t \in Threads :
          (/\ th[t].pc \in {"q_check", "q_assign", "q_probe"}
           /\ th'[t] # th[t]
           /\ coll.exists
           /\ faults' = faults)
          => (coll' = coll /\ th'[t].pc \notin {"q_delete", "q_create"})]_vars

\* C5 witness: a first use in a process has probed a collection that holds
\* an earlier process's entry and has returned the client, entry in place.
C5_Witness ==
    \E t \in Threads :
        /\ th[t].pc = "s_encode"
        /\ "client_built" \in th[t].did
        /\ Point(Earlier, 1) \in coll.points

\* C6: every result and every Search Hit of a finished search belongs to an
\* entry whose payload domain is the slug of the query, ingested under it.
C6_DomainIsolation ==
    \A t \in Threads :
        (th[t].op = "search" /\ th[t].pc = "done") =>
            /\ Len(th[t].hits) = Len(th[t].res)
            /\ \A i \in 1..Len(th[t].res) :
                  /\ th[t].res[i].payload.domain = th[t].slug
                  /\ th[t].hits[i].id = th[t].res[i].id
                  /\ \E row \in rows :
                        row.id = th[t].hits[i].id /\ row.object_id[1] = th[t].slug

\* C6 witness: a search has returned hits of its domain while the
\* collection holds an entry of another domain.
C6_Witness ==
    \E t \in Threads :
        /\ th[t].op = "search" /\ th[t].pc = "done" /\ th[t].hits # <<>>
        /\ \E pt \in coll.points : pt.payload.domain # th[t].slug

\* C7: once the runner of a trigger call has stopped, every file it queued
\* has been run, to success or to its own failure.
C7_EveryQueuedFileRuns ==
    \A t \in Threads :
        (th[t].op = "ingest" /\ th[t].pc \in {"done", "bg_dead"}) =>
            { th[t].results[i][1] : i \in 1..Len(th[t].results) }
                = { f.name : f \in FilesOf(th[t].slug) }

\* C8: no step of a search call changes the Metadata Store rows or the
\* Vector Index (existence, configuration, entries of the collection).
C8_SearchReadOnly ==
    [][\A t \in Threads :
          (th[t].op = "search" /\ th'[t] # th[t]) => (rows' = rows /\ coll' = coll)]_vars

\* C9: a search request with a query shorter than 2, an empty slug or k
\* outside 1..50 is rejected, and has not obtained, constructed or called
\* the embedding model nor the index client.
C9_RejectedBeforeWork ==
    \A t \in Threads :
        (/\ th[t].op = "search"
         /\ \/ Len(th[t].q) < 2
            \/ Len(th[t].slug) = 0
            \/ th[t].k < 1
            \/ th[t].k > 50)
        => th[t].pc = "rejected" /\ th[t].did = {} /\ th[t].model = 0

\* C9 witness: a request with a one-character query has been rejected.
C9_Witness ==
    \E t \in Threads :
        th[t].op = "search" /\ Len(th[t].q) = 1 /\ th[t].pc = "rejected"

\* C10: with no fault injected, a valid search of a domain without ingested
\* chunks ends with an empty list of hits, not with an error.
C10_EmptyDomainNoError ==
    \A t \in Threads :
        (/\ th[t].op = "search"
         /\ th[t].pc \in {"done", "failed"}
         /\ faults = 0
         /\ \A row \in rows : row.object_id[1] # th[t].slug)
        => th[t].pc = "done" /\ th[t].hits = <<>>

\* C11: a finished search holds at most k hits, one per result of the index
\* and in the index's order, each with that result's identifier, text,
\* source and score; the results are distinct entries.
C11_HitsMirrorResults ==
    \A t \in Threads :
        (th[t].op = "search" /\ th[t].pc = "done") =>
            /\ Len(th[t].hits) <= th[t].k
            /\ Len(th[t].hits) = Len(th[t].res)
            /\ \A i \in 1..Len(th[t].res) :
                  th[t].hits[i] = [id |-> th[t].res[i].id,
                                   text |-> th[t].res[i].payload.text,
                                   source |-> th[t].res[i].payload.source,
                                   score |-> th[t].res[i].score]
            /\ \A i, j \in 1..Len(th[t].res) : th[t].res[i].id = th[t].res[j].id => i = j

\* C11 witness: a search has returned two hits or more.
C11_Witness ==
    \E t \in Threads : th[t].op = "search" /\ th[t].pc = "done" /\ Len(th[t].hits) >= 2

\* C12: an ingest_file whose extraction failed has ended with the error,
\* having built, committed and upserted nothing and called no provider.
C12_ExtractFailureWritesNothing ==
    \A t \in Threads :
        th[t].err = "extract" =>
            /\ th[t].pc \in {"f_raise", "bg_dead"}
            /\ th[t].ids = <<>> /\ th[t].nrows = 0 /\ th[t].sent = 0
            /\ th[t].did = {}

\* C12 witness: the extraction of a file has failed and the runner has
\* taken the exception.
C12_Witness == \E t \in Threads : th[t].err = "extract" /\ th[t].pc = "bg_dead"

\* The words of a text: its maximal runs of characters that are not
\* whitespace, in order (cur is the word being read)
RECURSIVE WordsOf(_, _)
WordsOf(s, cur) ==
    IF s = <<>> THEN (IF cur = <<>> THEN <<>> ELSE <<cur>>)
    ELSE IF IsSpace(Head(s))
         THEN (IF cur = <<>> THEN <<>> ELSE <<cur>>) \o WordsOf(Tail(s), <<>>)
         ELSE WordsOf(Tail(s), Append(cur, Head(s)))

RECURSIVE JoinWords(_)
JoinWords(ws) ==
    IF ws = <<>> THEN <<>>
    ELSE IF Len(ws) = 1 THEN ws[1]
    ELSE ws[1] \o <<" ">> \o JoinWords(Tail(ws))

\* The whitespace-normalised text: the words, one space between neighbours
Normalised(s) == JoinWords(WordsOf(s, <<>>))

RECURSIVE Concat(_)
Concat(ss) == IF ss = <<>> THEN <<>> ELSE Head(ss) \o Concat(Tail(ss))

\* C13: the chunks _chunks has yielded, concatenated in order, are the part
\* of the whitespace-normalised input read so far, and the whole of it once
\* _chunks has returned: no character is dropped or duplicated.
C13_ChunksReconstructNormalised ==
    /\ ck.pc = "loop" =>
           /\ Len(Concat(ck.out)) <= Len(Normalised(ck.text))
           /\ \A j \in 1..Len(Concat(ck.out)) : Concat(ck.out)[j] = Normalised(ck.text)[j]
    /\ ck.pc = "done" => Concat(ck.out) = Normalised(ck.text)

\* C13 witness: _chunks has returned several chunks of a text that
\* normalisation has changed inside and at an end.
C13_Witness ==
    /\ ck.pc = "done" /\ Len(ck.out) >= 2
    /\ Len(ck.text) = Len(ck.clean) + 2
    /\ IsSpace(Head(ck.text)) /\ ck.text[3] = "\n"

\* The chunks are at most n long, and only the last may be shorter
ChunkLengthsOK ==
    \A j \in 1..Len(ck.out) :
        /\ Len(ck.out[j]) >= 1
        /\ Len(ck.out[j]) <= ck.n
        /\ j < Len(ck.out) => Len(ck.out[j]) = ck.n

\* C14 (as stated): a non-empty text no longer than the chunk length gives
\* exactly one chunk, the empty text gives none, every chunk is at most the
\* chunk length and only the last may be shorter.
C14_Original ==
    ck.pc = "done" =>
        /\ (ck.text # <<>> /\ Len(ck.text) <= ck.n) => Len(ck.out) = 1
        /\ ck.text = <<>> => Len(ck.out) = 0
        /\ ChunkLengthsOK

\* C14 (amended): a text whose whitespace-normalised form is non-empty and
\* no longer than the chunk length gives exactly one chunk; a text whose
\* normalised form is empty (the empty text, or whitespace only) gives none;
\* every chunk is at most the chunk length, none is empty, and only the
\* last may be shorter.
C14_OneChunkIfNormalisedFits ==
    ck.pc = "done" =>
        /\ (Normalised(ck.text) # <<>> /\ Len(Normalised(ck.text)) <= ck.n)
               => Len(ck.out) = 1
        /\ Normalised(ck.text) = <<>> => Len(ck.out) = 0
        /\ ChunkLengthsOK

\* C14 witness: _chunks has returned without a chunk for a text of
\* whitespace only.
C14_Witness ==
    ck.pc = "done" /\ ck.text # <<>> /\ Len(ck.text) <= ck.n /\ ck.out = <<>>

\* C15: with no fault injected, an ingest_file of a file whose extracted
\* text is empty has built no chunk, row or entry, has not asked for the
\* embedding model, and has not raised an error.
C15_EmptyFileNoError ==
    \A t \in Threads :
        (/\ th[t].op = "ingest"
         /\ th[t].pc # "f_extract"
         /\ th[t].file \in FilesOf("a")
         /\ CleanLen(th[t].file) = 0
         /\ faults = 0)
        => /\ th[t].nch = 0 /\ th[t].ids = <<>> /\ th[t].nrows = 0 /\ th[t].sent = 0
           /\ \A row \in rows : row.object_id # <<th[t].slug, th[t].file.name>>
           /\ \A pt \in coll.points : pt.payload.source # th[t].file.name
           /\ th[t].did \cap {"_get_model", "model_built", "encode"} = {}
           /\ th[t].err = ""
           /\ th[t].pc \notin {"f_raise", "bg_dead"}

\* C16: an ingest_file of a 1024-character Markdown file that has returned
\* without error has created exactly 2 rows and upserted exactly 2 entries,
\* each with the slug as its payload domain.
C16_TwoRowsTwoEntries ==
    \A t \in Threads :
        (/\ th[t].op = "ingest"
         /\ th[t].pc = "f_ok"
         /\ th[t].file.suffix = ".md"
         /\ th[t].file.len = 1024)
        => /\ th[t].nrows = 2
           /\ th[t].sent = 2
           /\ \A i \in 1..Len(th[t].ids) :
                  /\ Point(th[t], i).payload.domain = th[t].slug
                  /\ Point(th[t], i) \in coll.points => i <= 2

\* C17: in one process at most one caller of _get_model has constructed
\* the model, and all callers that hold an instance hold the same one.
C17_ModelConstructedOnce ==
    \A t, u \in Threads :
        (t # u /\ th[t].op # "idle" /\ th[u].op # "idle" /\ th[t].proc = th[u].proc)
        => /\ ~("model_built" \in th[t].did /\ "model_built" \in th[u].did)
           /\ (th[t].model # 0 /\ th[u].model # 0) => th[t].model = th[u].model

\* ingest_file of thread t has returned without error for its current file
Succeeded(t) == th[t].op = "ingest" /\ th[t].pc \in {"f_ok", "done"}

\* C18: with no fault injected, identifiers of different ingestions are
\* distinct, and when two ingestions of the same file have both returned
\* without error, the rows and the entries of both are in the stores.
C18_ReingestAccumulates ==
    faults = 0 =>
        \A t, u \in Threads :
            t # u =>
               /\ \A i \in 1..Len(th[t].ids), j \in 1..Len(th[u].ids) :
                      th[t].ids[i] # th[u].ids[j]
               /\ (/\ Succeeded(t) /\ Succeeded(u)
                   /\ th[t].slug = th[u].slug /\ th[t].file = th[u].file)
                  => \A i \in 1..Len(th[t].ids) :
                         /\ EmbeddingRow(th[t], th[t].ids[i]) \in rows
                         /\ Point(th[t], i) \in coll.points

\* C19: when _get_qdrant hands the stored client to a caller (the branch of
\* line 50 not taken), no thread of the caller's process is still between
\* the probe and the creation of the collection, and none has left that
\* first initialisation by an error.
C19_ClientOnlyAfterProvisioning ==
    [][\A t \in Threads :
          (th[t].pc = "q_check" /\ th'[t].pc = AfterQdrant(th[t]))
          => \A u \in Threads :
                 th[u].proc = th[t].proc
                 => /\ th[u].pc \notin {"q_assign", "q_probe", "q_delete", "q_create"}
                    /\ th[u].err \notin {"probe", "recreate", "already exists"}]_vars

\* C20: an ingest_file in which the embedding model failed, on the first
\* chunk or on a later one, has ended with the error, has committed no row
\* and upserted no entry, has not asked for the index client, and no chunk
\* it had embedded is in either store.
C20_EmbeddingFailureWritesNothing ==
    \A t \in Threads :
        (th[t].op = "ingest" /\ th[t].err \in {"encode", "model"})
        => /\ th[t].pc \in {"f_raise", "bg_dead"}
           /\ th[t].nrows = 0 /\ th[t].sent = 0 /\ ~th[t].upfailed
           /\ th[t].did \cap {"_get_qdrant", "client_built", "index_call"} = {}
           /\ \A i \in 1..Len(th[t].ids) :
                  /\ \A row \in rows : row.id # th[t].ids[i]
                  /\ \A pt \in coll.points : pt.id # th[t].ids[i]

\* C20 witness: the model has failed on a later chunk of a file, after
\* chunks of it were embedded, and the runner has taken the exception.
C20_Witness ==
    \E t \in Threads :
        th[t].err = "encode" /\ Len(th[t].ids) >= 1 /\ th[t].pc = "bg_dead"
====
